---- MODULE Spec2Model ----
(***************************************************************************)
(* Model of plateforme_lidar/calculs.py:                                   *)
(*   - ReverseTiling_mem (flightline reconstruction, "reverse tiling"),    *)
(*   - correction3D / correction_vect (input mode selection and bearing),  *)
(*   - writeKML.                                                           *)
(* Strings are sequences of one-character strings, so that slicing,        *)
(* splitting, padding and globbing are computed as the code computes them. *)
(***************************************************************************)
EXTENDS Integers, Sequences, FiniteSets, TLC

VARIABLES pc, buffer, workspace, motif, fs, dirs, listNames, linesDict,
          dictKeys, maxPtSrcId, mergeIdx, runLog, err,
          call, ret

tvars == <<pc, buffer, workspace, motif, fs, dirs, listNames, linesDict,
           dictKeys, maxPtSrcId, mergeIdx, runLog, err>>
pvars == <<call, ret>>
vars == <<pc, buffer, workspace, motif, fs, dirs, listNames, linesDict,
          dictKeys, maxPtSrcId, mergeIdx, runLog, err, call, ret>>

(***************************************************************************)
(* Bounds                                                                  *)
(***************************************************************************)
MaxFiles == 3
MaxPts == 1
MaxLen == 2

(***************************************************************************)
(* Sample inputs                                                           *)
(***************************************************************************)
\* point source identifiers occurring in the tiles
Ids == {1, 7, 105}
\* tile base names, in the order the pool is drawn from
TileLetters == <<"A", "B", "C", "D", "E">>
LazExt == <<".", "l", "a", "z">>
StripSuffix == <<"_", "1">>
\* output filename templates ("fileroot"), each with one XX placeholder
Fileroots == { <<"t", "_", "X", "X", ".", "l", "a", "z">>,
               <<"f", "X", "X">> }
InitWorkspace == <<"w", "/">>
NewTile == <<"n", "e", "w", "_", "t", "i", "l", "e", "/">>

(***************************************************************************)
(* String helpers (Python str semantics)                                   *)
(***************************************************************************)
Digits == <<"0", "1", "2", "3", "4", "5", "6", "7", "8", "9">>

RECURSIVE str(_)
\* str(key) for a non-negative integer key
str(n) == IF n < 10 THEN <<Digits[n + 1]>>
          ELSE str(n \div 10) \o <<Digits[(n % 10) + 1]>>

RECURSIVE Repeat(_, _)
\* c*n : n copies of the character c, empty when n <= 0
Repeat(c, n) == IF n <= 0 THEN <<>> ELSE <<c>> \o Repeat(c, n - 1)

\* s[0:-2]
DropLast2(s) == SubSeq(s, 1, Len(s) - 2)

\* s[0:-9]
DropLast9(s) == SubSeq(s, 1, Len(s) - 9)

StartsWith(s, p) == Len(s) >= Len(p) /\ SubSeq(s, 1, Len(p)) = p
EndsWith(s, p) == Len(s) >= Len(p) /\ SubSeq(s, Len(s) - Len(p) + 1, Len(s)) = p

RECURSIVE SplitFrom(_, _, _)
\* s.split(sep='XX'), scanning from position i with the current part cur
SplitFrom(s, i, cur) ==
    IF i > Len(s) THEN <<cur>>
    ELSE IF i < Len(s) /\ s[i] = "X" /\ s[i + 1] = "X"
         THEN <<cur>> \o SplitFrom(s, i + 2, <<>>)
         ELSE SplitFrom(s, i + 1, Append(cur, s[i]))

split(fileroot) == SplitFrom(fileroot, 1, <<>>)

\* os.path.split(path)[1]
RECURSIVE LastSlash(_, _)
LastSlash(s, i) == IF i = 0 THEN 0 ELSE IF s[i] = "/" THEN i ELSE LastSlash(s, i - 1)
basename(path) == SubSeq(path, LastSlash(path, Len(path)) + 1, Len(path))
dirname(path) == SubSeq(path, 1, LastSlash(path, Len(path)))

\* glob.glob(dir + "*" + suffix): files directly in dir whose name ends with suffix
globStar(files, dir, suffix) ==
    { p \in files : dirname(p) = dir /\ EndsWith(basename(p), suffix) }

\* glob.glob(dir + literal): a pattern without wildcard matches that path only
globLiteral(files, dir, literal) == { p \in files : p = dir \o literal }

(***************************************************************************)
(* Orderings                                                               *)
(***************************************************************************)
\* all orderings of a finite set: the order in which glob may discover files
Orderings(S) ==
    { s \in [1..Cardinality(S) -> S] : \A i, j \in 1..Cardinality(S) : i # j => s[i] # s[j] }

\* np.unique on the pt_src_id column: the distinct values in ascending order
np_unique(idset) ==
    CHOOSE s \in Orderings(idset) : \A i, j \in 1..Len(s) : i < j => s[i] < s[j]

Max(S) == CHOOSE m \in S : \A k \in S : k <= m

NoErr == [exc |-> "none", in |-> "none"]

(***************************************************************************)
(* ReverseTiling_mem                                                       *)
(***************************************************************************)
\* a tile of the initial workspace: InitWorkspace + letter + ".laz"
TilePath(i) == InitWorkspace \o <<TileLetters[i]>> \o LazExt

\* name of the buffer-stripped copy the tiling tool writes next to a tile
strippedPath(p) == SubSeq(p, 1, Len(p) - Len(LazExt)) \o StripSuffix \o LazExt

\* utils.Run(query): the exception left by a blocking external-tool call
Run(ok) == IF ok THEN NoErr ELSE [exc |-> "ExternalToolFailure", in |-> "Run"]

\* effect of a successful "lastile -i <workspace>*.laz -remove_buffer -olaz"
lastile(files, dir) ==
    LET tiles == globStar(DOMAIN files, dir, LazExt)
        out == { strippedPath(p) : p \in tiles }
        src(q) == CHOOSE p \in tiles : strippedPath(p) = q
    IN [q \in (DOMAIN files) \cup out |->
            IF q \in out THEN files[src(q)] ELSE files[q]]

\* effect of a successful "lasmerge -i ... -keep_point_source key -o out"
lasmerge(files, key, out) ==
    [q \in (DOMAIN files) \cup {out} |-> IF q = out THEN {key} ELSE files[q]]

\* _get_ptSrcId(filename): [filename, np.unique(f.pt_src_id)]
get_ptSrcId(files, dir, filename) == <<filename, np_unique(files[dir \o filename])>>

SeqRange(s) == { s[i] : i \in 1..Len(s) }

\* one pass of the inner loop body of searchingLines (l.230-233) mutated:
\* the list of an existing key is overwritten instead of extended
dictAdd_overwrite(d, c, name) ==
    IF c \notin SeqRange(d.keys)
    THEN [keys |-> Append(d.keys, c), map |-> (c :> <<name>>) @@ d.map]
    ELSE [d EXCEPT !.map[c] = <<name>>]

\* inner loop body of searchingLines: insert or append name under key c
dictAdd(d, c, name) ==
    IF c \notin SeqRange(d.keys)
    THEN [keys |-> Append(d.keys, c), map |-> (c :> <<name>>) @@ d.map]
    ELSE [d EXCEPT !.map[c] = @ \o <<name>>]

RECURSIVE addIds(_, _, _, _)
\* "for c in i[1]" from position j on
addIds(d, name, ids, j) ==
    IF j > Len(ids) THEN d ELSE addIds(dictAdd(d, ids[j], name), name, ids, j + 1)

RECURSIVE buildDict(_, _, _)
\* "for i in result" from position i on
buildDict(result, i, d) ==
    IF i > Len(result) THEN d
    ELSE buildDict(result, i + 1, addIds(d, result[i][1], result[i][2], 1))

EmptyDict == [keys |-> <<>>, map |-> <<>>]

\* _mergeLines, l.210-212: the output file name for key
mergeName(key, maxLen) ==
    LET keyStr == str(key)
        diff == maxLen - Len(keyStr)
    IN motif[1] \o Repeat("0", diff) \o DropLast2(keyStr) \o motif[2]

\* _mergeLines, l.206-213: the lasmerge query for key
mergeQuery(key, maxLen) ==
    [tool |-> "lasmerge",
     inputs |-> [i \in 1..Len(linesDict[key]) |-> workspace \o linesDict[key][i]],
     key |-> key,
     out |-> workspace \o mergeName(key, maxLen)]

\* removeBuffer, l.217: the lastile query
bufferQuery ==
    [tool |-> "lastile",
     inputs |-> <<workspace \o <<"*">> \o LazExt>>,
     key |-> 0,
     out |-> <<>>]

Logged(q, ok) == Append(runLog, [q |-> q, ok |-> ok])

InitTiling ==
    /\ pc = "removeBuffer"
    /\ buffer \in BOOLEAN
    /\ workspace = InitWorkspace
    /\ \E fileroot \in Fileroots : motif = split(fileroot)
    /\ \E n \in 0..MaxFiles : fs \in [{ TilePath(i) : i \in 1..n } -> SUBSET Ids]
    /\ dirs = {InitWorkspace}
    /\ listNames = <<>>
    /\ linesDict = <<>>
    /\ dictKeys = <<>>
    /\ maxPtSrcId = 0
    /\ mergeIdx = 0
    /\ runLog = <<>>
    /\ err = NoErr

IdlePure == call = [fn |-> "none"] /\ ret = [fn |-> "none"]

Init == InitTiling /\ IdlePure

\* __init__ l.188 with buffer false: removeBuffer is not called
SkipRemoveBuffer ==
    /\ pc = "removeBuffer"
    /\ ~buffer
    /\ pc' = "searchingLines"
    /\ UNCHANGED <<buffer, workspace, motif, fs, dirs, listNames, linesDict,
                   dictKeys, maxPtSrcId, mergeIdx, runLog, err>>

\* removeBuffer, l.216-222.  `workspace` is assigned in the function body
\* (l.222), hence a local name; its read at l.219 precedes any assignment
\* and raises UnboundLocalError once the tool has returned.
RemoveBuffer ==
    /\ pc = "removeBuffer"
    /\ buffer
    /\ \E ok \in BOOLEAN :
         /\ runLog' = Logged(bufferQuery, ok)
         /\ IF Run(ok) # NoErr
            THEN /\ err' = Run(ok)
                 /\ fs' = fs
            ELSE /\ fs' = lastile(fs, workspace)
                 /\ err' = [exc |-> "UnboundLocalError", in |-> "removeBuffer"]
    /\ pc' = "error"
    /\ UNCHANGED <<buffer, workspace, motif, dirs, listNames, linesDict,
                   dictKeys, maxPtSrcId, mergeIdx>>

\* searchingLines, l.224-233; joblib.Parallel returns results in input order
SearchingLines ==
    /\ pc = "searchingLines"
    /\ \E order \in Orderings(globStar(DOMAIN fs, workspace, LazExt)) :
         LET names == [i \in 1..Len(order) |-> basename(order[i])]
             result == [i \in 1..Len(names) |-> get_ptSrcId(fs, workspace, names[i])]
             d == buildDict(result, 1, EmptyDict)
         IN /\ listNames' = names
            /\ linesDict' = d.map
            /\ dictKeys' = d.keys
    /\ pc' = "writingLines"
    /\ UNCHANGED <<buffer, workspace, motif, fs, dirs, maxPtSrcId, mergeIdx,
                   runLog, err>>

\* writingLines, l.236: max() of an empty key view raises ValueError
WritingLinesBegin ==
    /\ pc = "writingLines"
    /\ IF dictKeys = <<>>
       THEN /\ err' = [exc |-> "ValueError", in |-> "writingLines"]
            /\ pc' = "error"
            /\ UNCHANGED <<maxPtSrcId, mergeIdx>>
       ELSE /\ maxPtSrcId' = Len(str(Max(DOMAIN linesDict)))
            /\ mergeIdx' = 1
            /\ pc' = "merge"
            /\ err' = err
    /\ UNCHANGED <<buffer, workspace, motif, fs, dirs, listNames, linesDict,
                   dictKeys, runLog>>

\* one iteration of l.237-239 with the failure of the call swallowed: the
\* loop goes on with the next identifier
MergeLines_swallow ==
    /\ pc = "merge"
    /\ mergeIdx <= Len(dictKeys)
    /\ \E ok \in BOOLEAN :
         LET q == mergeQuery(dictKeys[mergeIdx], maxPtSrcId)
         IN /\ runLog' = Logged(q, ok)
            /\ fs' = IF ok THEN lasmerge(fs, q.key, q.out) ELSE fs
            /\ mergeIdx' = mergeIdx + 1
            /\ UNCHANGED <<pc, err>>
    /\ UNCHANGED <<buffer, workspace, motif, dirs, listNames, linesDict,
                   dictKeys, maxPtSrcId>>

\* writingLines, l.237-239: one iteration, i.e. one call of _mergeLines
MergeLines ==
    /\ pc = "merge"
    /\ mergeIdx <= Len(dictKeys)
    /\ \E ok \in BOOLEAN :
         LET q == mergeQuery(dictKeys[mergeIdx], maxPtSrcId)
         IN /\ runLog' = Logged(q, ok)
            /\ IF Run(ok) # NoErr
               THEN /\ err' = Run(ok)
                    /\ pc' = "error"
                    /\ UNCHANGED <<fs, mergeIdx>>
               ELSE /\ fs' = lasmerge(fs, q.key, q.out)
                    /\ mergeIdx' = mergeIdx + 1
                    /\ UNCHANGED <<pc, err>>
    /\ UNCHANGED <<buffer, workspace, motif, dirs, listNames, linesDict,
                   dictKeys, maxPtSrcId>>

\* writingLines, l.241-247: relocate the outputs, delete the stripped tiles
cleanupFiles(files, dir, prefix) ==
    LET moved == globLiteral(DOMAIN files, dir, prefix)
        target(p) == DropLast9(dir) \o basename(p)
        afterMove == [q \in ((DOMAIN files) \ moved) \cup { target(p) : p \in moved } |->
                        IF q \in { target(p) : p \in moved }
                        THEN files[CHOOSE p \in moved : target(p) = q]
                        ELSE files[q]]
        removed == globStar(DOMAIN afterMove, dir, StripSuffix \o LazExt)
    IN [q \in (DOMAIN afterMove) \ removed |-> afterMove[q]]

\* end of writingLines, l.241-248; os.rmdir raises OSError on a non-empty directory
WritingLinesEnd ==
    /\ pc = "merge"
    /\ mergeIdx > Len(dictKeys)
    /\ IF buffer
       THEN /\ fs' = cleanupFiles(fs, workspace, motif[1])
            /\ IF \E p \in DOMAIN fs' : StartsWith(p, workspace)
               THEN /\ err' = [exc |-> "OSError", in |-> "writingLines"]
                    /\ pc' = "error"
                    /\ dirs' = dirs
               ELSE /\ dirs' = dirs \ {workspace}
                    /\ pc' = "done"
                    /\ err' = err
       ELSE /\ pc' = "done"
            /\ UNCHANGED <<fs, dirs, err>>
    /\ UNCHANGED <<buffer, workspace, motif, listNames, linesDict, dictKeys,
                   maxPtSrcId, mergeIdx, runLog>>

Next ==
    \/ (SkipRemoveBuffer /\ UNCHANGED pvars)
    \/ (RemoveBuffer /\ UNCHANGED pvars)
    \/ (SearchingLines /\ UNCHANGED pvars)
    \/ (WritingLinesBegin /\ UNCHANGED pvars)
    \/ (MergeLines /\ UNCHANGED pvars)
    \/ (WritingLinesEnd /\ UNCHANGED pvars)

Spec == Init /\ [][Next]_vars

TypeOK ==
    /\ pc \in {"removeBuffer", "searchingLines", "writingLines", "merge", "done", "error"}
    /\ buffer \in BOOLEAN
    /\ Len(motif) = 2
    /\ (pc = "error") = (err # NoErr)

(***************************************************************************)
(* correction3D / correction_vect                                          *)
(***************************************************************************)
\* coordinates of the sample shot origins and shot vectors
Coords == {-1, 0, 1}
ShotVecs == { <<x, y, 1>> : x \in Coords, y \in Coords }
AppPts == { <<0, 0, 0>>, <<1, -1, 0>> }

\* numpy element-wise pt_shot - pt_app
npSub(a, b) == [i \in 1..Len(a) |-> <<a[i][1] - b[i][1], a[i][2] - b[i][2], a[i][3] - b[i][3]>>]

\* integer square root, and whether n is a perfect square
Isqrt(n) == CHOOSE r \in 0..n : r * r <= n /\ (r + 1) * (r + 1) > n
IsSquare(n) == Isqrt(n) * Isqrt(n) = n

\* np.linalg.norm(v[0:2]) + v[1] = 0 : the norm of an integer vector is
\* either an integer or irrational, and only the former can cancel vy
denomIsZero(vx, vy) ==
    LET n2 == vx * vx + vy * vy
    IN IsSquare(n2) /\ Isqrt(n2) + vy = 0

\* IEEE-754 division as numpy performs it: 0/0 is NaN, x/0 is +-inf
divKind(numIsZero, denIsZero) ==
    IF denIsZero THEN (IF numIsZero THEN "nan" ELSE "inf") ELSE "finite"

\* 2*np.arctan(q): NaN stays NaN, +-inf gives +-pi
arctan2Kind(q) == IF q = "nan" THEN "nan" ELSE "finite"

\* l.45 / l.72: gisement of one vector, as the kind of float it yields
gisement(v) == arctan2Kind(divKind(v[1] = 0, denomIsZero(v[1], v[2])))

\* l.34-41 with the emptiness of vectorApp left untested in the first branch
mode_shotFirst(pt_shot, vectorApp) ==
    IF Len(pt_shot) > 0 THEN "discrete"
    ELSE IF Len(vectorApp) > 0 THEN "fwf"
    ELSE "ValueError"

\* l.34-41: which representation of the shot geometry is used
mode(pt_shot, vectorApp) ==
    IF Len(pt_shot) > 0 /\ Len(vectorApp) = 0 THEN "discrete"
    ELSE IF Len(pt_shot) = 0 /\ Len(vectorApp) > 0 THEN "fwf"
    ELSE "ValueError"

\* correction3D, l.34-45
correction3D(pt_app, pt_shot, vectorApp) ==
    LET m == mode(pt_shot, vectorApp)
        vectApp == IF m = "discrete" THEN npSub(pt_shot, pt_app) ELSE vectorApp
    IN IF m = "ValueError"
       THEN [fn |-> "correction3D", raised |-> "ValueError", vectApp |-> <<>>,
             gisement_vect |-> <<>>]
       ELSE [fn |-> "correction3D", raised |-> "none", vectApp |-> vectApp,
             gisement_vect |-> [i \in 1..Len(vectApp) |-> gisement(vectApp[i])]]

\* correction_vect, l.68-72
correction_vect(vectorApp) ==
    [fn |-> "correction_vect", raised |-> "none", vectApp |-> vectorApp,
     gisement_vect |-> [i \in 1..Len(vectorApp) |-> gisement(vectorApp[i])]]

IdleTiling ==
    /\ pc = "idle"
    /\ buffer = FALSE
    /\ workspace = InitWorkspace
    /\ motif = <<>>
    /\ fs = <<>>
    /\ dirs = {}
    /\ listNames = <<>>
    /\ linesDict = <<>>
    /\ dictKeys = <<>>
    /\ maxPtSrcId = 0
    /\ mergeIdx = 0
    /\ runLog = <<>>
    /\ err = NoErr

OptSeq(n, S) == {<<>>} \cup [1..n -> S]

InitCorrection ==
    /\ IdleTiling
    /\ ret = [fn |-> "none"]
    /\ \E n \in 1..MaxPts :
         \/ \E pa \in [1..n -> AppPts], ps \in OptSeq(n, ShotVecs), va \in OptSeq(n, ShotVecs) :
              call = [fn |-> "correction3D", pt_app |-> pa, pt_shot |-> ps, vectorApp |-> va]
         \/ \E va \in [1..n -> ShotVecs] :
              call = [fn |-> "correction_vect", pt_app |-> <<>>, pt_shot |-> <<>>, vectorApp |-> va]

CallCorrection3D ==
    /\ call.fn = "correction3D"
    /\ ret.fn = "none"
    /\ ret' = correction3D(call.pt_app, call.pt_shot, call.vectorApp)
    /\ UNCHANGED call

CallCorrectionVect ==
    /\ call.fn = "correction_vect"
    /\ ret.fn = "none"
    /\ ret' = correction_vect(call.vectorApp)
    /\ UNCHANGED call

NextCorrection ==
    \/ (CallCorrection3D /\ UNCHANGED tvars)
    \/ (CallCorrectionVect /\ UNCHANGED tvars)

SpecCorrection == InitCorrection /\ [][NextCorrection]_vars

(***************************************************************************)
(* writeKML                                                                *)
(***************************************************************************)
KmlNames == {"a", "b"}
KmlDescriptions == {"d1", "d2"}
KmlCoords == {<<0, 0>>}

UpTo(n, S) == UNION { [1..k -> S] : k \in 0..n }

\* list.index(x): position of the first occurrence
index(s, x) == CHOOSE i \in 1..Len(s) : s[i] = x /\ \A j \in 1..(i - 1) : s[j] # x

RECURSIVE kmlLoop(_, _, _, _, _)
\* l.175-176 from position j on; an out-of-range subscript raises IndexError
kmlLoop(names, descriptions, coordinates, j, points) ==
    IF j > Len(names) THEN [points |-> points, raised |-> "none"]
    ELSE LET k == index(names, names[j])
         IN IF k > Len(descriptions) \/ k > Len(coordinates)
            THEN [points |-> points, raised |-> "IndexError"]
            ELSE kmlLoop(names, descriptions, coordinates, j + 1,
                         Append(points, [name |-> names[j],
                                         description |-> descriptions[k],
                                         coords |-> <<coordinates[k]>>]))

\* writeKML, l.171-178: the failed assertion is caught and only printed
writeKML(names, descriptions, coordinates) ==
    LET sameLen == Len(names) = Len(descriptions) /\ Len(names) = Len(coordinates)
                   /\ Len(descriptions) = Len(coordinates)
        loop == kmlLoop(names, descriptions, coordinates, 1, <<>>)
    IN [fn |-> "writeKML",
        printed |-> ~sameLen,
        points |-> loop.points,
        raised |-> loop.raised,
        saved |-> (loop.raised = "none"),
        returned |-> (loop.raised = "none")]

InitKML ==
    /\ IdleTiling
    /\ ret = [fn |-> "none"]
    /\ \E ns \in UpTo(MaxLen, KmlNames), ds \in UpTo(MaxLen, KmlDescriptions),
          cs \in UpTo(MaxLen, KmlCoords) :
         call = [fn |-> "writeKML", names |-> ns, descriptions |-> ds, coordinates |-> cs]

CallWriteKML ==
    /\ call.fn = "writeKML"
    /\ ret.fn = "none"
    /\ ret' = writeKML(call.names, call.descriptions, call.coordinates)
    /\ UNCHANGED call

NextKML == CallWriteKML /\ UNCHANGED tvars

SpecKML == InitKML /\ [][NextKML]_vars

(***************************************************************************)
(* Properties                                                              *)
(***************************************************************************)
\* searchingLines has run to completion
Searched ==
    \/ pc \in {"writingLines", "merge", "done"}
    \/ pc = "error" /\ err.in = "writingLines"
    \/ pc = "error" /\ runLog # <<>> /\ runLog[Len(runLog)].q.tool = "lasmerge"

\* the distinct identifiers of the tile named f
TileIds(f) == fs[workspace \o f]

Merges == { i \in 1..Len(runLog) : runLog[i].q.tool = "lasmerge" }

\* C1: after searchingLines the dictionary has one key per identifier that
\* occurs in some scanned file, the list of key k holds exactly the files
\* whose identifier set contains k, once each and in discovery order, and a
\* file with N distinct identifiers is in exactly N lists.
C1_LinesDictionary ==
    Searched =>
        /\ DOMAIN linesDict = UNION { TileIds(listNames[i]) : i \in 1..Len(listNames) }
        /\ (pc = "writingLines") =>
             SeqRange(listNames) = { basename(p) : p \in globStar(DOMAIN fs, workspace, LazExt) }
        /\ \A i, j \in 1..Len(listNames) : i # j => listNames[i] # listNames[j]
        /\ SeqRange(dictKeys) = DOMAIN linesDict
        /\ Len(dictKeys) = Cardinality(DOMAIN linesDict)
        /\ \A k \in DOMAIN linesDict :
             linesDict[k] = SelectSeq(listNames, LAMBDA f : k \in TileIds(f))
        /\ \A i \in 1..Len(listNames) :
             Cardinality({ k \in DOMAIN linesDict : listNames[i] \in SeqRange(linesDict[k]) })
                = Cardinality(TileIds(listNames[i]))

\* the example of the specification: A:{1,7}, B:{7,105}, C:{1}
C1_Witness ==
    /\ pc = "writingLines"
    /\ listNames = << <<"A">> \o LazExt, <<"B">> \o LazExt, <<"C">> \o LazExt >>
    /\ TileIds(listNames[1]) = {1, 7}
    /\ TileIds(listNames[2]) = {7, 105}
    /\ TileIds(listNames[3]) = {1}
    /\ linesDict[1] = <<listNames[1], listNames[3]>>
    /\ linesDict[7] = <<listNames[1], listNames[2]>>
    /\ linesDict[105] = <<listNames[2]>>

\* C2: a run without buffer removal on a workspace that holds no tile file
\* ends without error, with an empty dictionary and no merge invocation.
C2_EmptyWorkspace ==
    (~buffer /\ pc \in {"done", "error"} /\ globStar(DOMAIN fs, workspace, LazExt) = {}) =>
        /\ pc = "done"
        /\ err = NoErr
        /\ DOMAIN linesDict = {}
        /\ Merges = {}

\* the file name the specification asks for: str(k) zero-padded to the
\* width of the longest identifier string among the keys
paddedName(k) ==
    LET W == Max({ Len(str(j)) : j \in DOMAIN linesDict })
    IN motif[1] \o Repeat("0", W - Len(str(k))) \o str(k) \o motif[2]

\* C3: the output file passed to every merge is the template with XX
\* replaced by the whole decimal identifier, zero-padded to the width of the
\* longest identifier of the run.
C3_OutputName ==
    \A i \in Merges : runLog[i].q.out = workspace \o paddedName(runLog[i].q.key)

\* C4: a failed external-tool call is the last call of the run: the failure
\* is the error the run ends with, nothing is retried, and neither a later
\* phase nor a merge of a remaining identifier takes place.
C4_AbortOnToolFailure ==
    \A i \in 1..Len(runLog) :
        ~runLog[i].ok =>
            /\ i = Len(runLog)
            /\ pc = "error"
            /\ err.exc = "ExternalToolFailure"
            /\ runLog[i].q.tool = "lastile" => (listNames = <<>> /\ dictKeys = <<>> /\ mergeIdx = 0)
            /\ runLog[i].q.tool = "lasmerge" =>
                 /\ mergeIdx = Cardinality(Merges)
                 /\ runLog[i].q.key = dictKeys[mergeIdx]
                 /\ \A j \in (mergeIdx + 1)..Len(dictKeys) :
                      \A m \in Merges : runLog[m].q.key # dictKeys[j]

\* a merge failed after an earlier one succeeded, with identifiers left over
C4_Witness ==
    /\ pc = "error"
    /\ Len(runLog) >= 2
    /\ runLog[1].ok
    /\ ~runLog[Len(runLog)].ok
    /\ runLog[Len(runLog)].q.tool = "lasmerge"
    /\ mergeIdx < Len(dictKeys)

\* C5: correction3D raises ValueError, with nothing computed, when pt_shot
\* and vectorApp are both empty or both non-empty; with exactly one of them
\* non-empty it does not raise and works on pt_shot - pt_app (discrete mode)
\* or on the supplied vectors (waveform mode).
C5_ShotGeometry ==
    ret.fn = "correction3D" =>
        LET hasShot == call.pt_shot # <<>>
            hasVect == call.vectorApp # <<>>
        IN /\ (hasShot = hasVect) =>
                (ret.raised = "ValueError" /\ ret.vectApp = <<>> /\ ret.gisement_vect = <<>>)
           /\ (hasShot /\ ~hasVect) =>
                /\ ret.raised = "none"
                /\ Len(ret.vectApp) = Len(call.pt_app)
                /\ \A i \in 1..Len(call.pt_app) : \A c \in 1..3 :
                     ret.vectApp[i][c] + call.pt_app[i][c] = call.pt_shot[i][c]
           /\ (~hasShot /\ hasVect) =>
                (ret.raised = "none" /\ ret.vectApp = call.vectorApp)

\* both representations supplied: the call raised
C5_Witness ==
    /\ ret.fn = "correction3D"
    /\ call.pt_shot # <<>>
    /\ call.vectorApp # <<>>
    /\ ret.raised = "ValueError"

\* C6: writeKML with names, descriptions and coordinates of unequal length
\* raises, adds no point and saves no file.
C6_KmlLengths ==
    (ret.fn = "writeKML"
        /\ ~(Len(call.names) = Len(call.descriptions)
             /\ Len(call.names) = Len(call.coordinates))) =>
        /\ ret.raised # "none"
        /\ ret.points = <<>>
        /\ ~ret.saved

\* C7: for a shot vector with vx = 0 and vy = -hypot(vx,vy) the bearing is a
\* finite angle: the zero denominator is guarded, no 0/0 is evaluated.
C7_BearingGuard ==
    ret.fn \in {"correction3D", "correction_vect"} =>
        \A i \in 1..Len(ret.vectApp) :
            (ret.vectApp[i][1] = 0 /\ ret.vectApp[i][2] <= 0) =>
                ret.gisement_vect[i] = "finite"

\* C8: once the tiling tool has succeeded, removeBuffer ends without error,
\* the stripped files are in the new_tile subdirectory and the workspace of
\* the reconstructor is that subdirectory, which every scanned file and every
\* merge input comes from.
C8_BufferRedirect ==
    (runLog # <<>> /\ runLog[1].q.tool = "lastile" /\ runLog[1].ok) =>
        /\ err.in # "removeBuffer"
        /\ workspace = InitWorkspace \o NewTile
        /\ \A p \in DOMAIN fs :
             EndsWith(basename(p), StripSuffix \o LazExt) => dirname(p) = InitWorkspace \o NewTile
        /\ \A i \in Merges : \A j \in 1..Len(runLog[i].q.inputs) :
             dirname(runLog[i].q.inputs[j]) = InitWorkspace \o NewTile

\* C9: a run with buffer removal in which no tool call failed ends with the
\* outputs in the parent workspace, no stripped tile left and the
\* intermediate subdirectory removed.
C9_BufferCleanup ==
    (buffer /\ pc \in {"done", "error"} /\ \A i \in 1..Len(runLog) : runLog[i].ok) =>
        /\ pc = "done"
        /\ \A i \in Merges : (InitWorkspace \o basename(runLog[i].q.out)) \in DOMAIN fs
        /\ \A p \in DOMAIN fs : ~EndsWith(basename(p), StripSuffix \o LazExt)
        /\ (InitWorkspace \o NewTile) \notin dirs

\* C10: two merges of one run for distinct identifiers write distinct files.
C10_DistinctOutputs ==
    \A i, j \in Merges :
        runLog[i].q.key # runLog[j].q.key => runLog[i].q.out # runLog[j].q.out

====
